---- MODULE Spec2Model ----
(***************************************************************************)
(* Order placement of services/order_service.py: OrderService.save and     *)
(* OrderService._generate_next_order_number over a store of clients,       *)
(* products, bills, orders and order details, with one SQLAlchemy session  *)
(* (unit of work) per call.                                                *)
(*                                                                         *)
(* Conventions.                                                            *)
(*  - An Optional value is a sequence: <<>> is None, <<v>> is the value v. *)
(*  - A Python str is a sequence of one-character strings.                 *)
(*  - Money: prices and the subtotal are integers; discount_amount and     *)
(*    total hold the division by 100 of line 100 exactly, as numerators    *)
(*    over PctDenominator (total 450 stands for 4.50).  Float rounding is  *)
(*    not modelled.                                                        *)
(***************************************************************************)
EXTENDS Integers, Sequences, FiniteSets, TLC

\* ------------------------------------------------------------------ bounds
\* number of save calls in one behaviour
MaxSaves == 2
\* longest item list of a request
MaxItems == 2

\* ------------------------------------------------------- program constants
\* max_val = 999 (the allocator's floor minus one)
InitialMaxVal == 999
\* the divisor of subtotal * discount_pct / 100
PctDenominator == 100

\* ---------------------------------------------------------- input domains
Procs == {1, 2}
\* the callers of the sequential specification
Sequential == {1}
None == <<>>
Some(v) == <<v>>
IsNone(o) == o = <<>>
Val(o) == o[1]

ClientInputs == {1, 2}
ProductInputs == {1, 9}
QtyInputs == {1, 2}
BillInputs == {None, Some(2)}
PctInputs == {None, Some(50)}
TotalInputs == {7}

\* the product ids that exist in every store of the model
ProductIds == {1, 2}

\* OrderItemInput: product_id, quantity (> 0).  Line 88 raises for a missing
\* product before the item's quantity is read, so such an item carries one
\* quantity only.
OrderItemInput ==
    {item \in [product_id : ProductInputs, quantity : QtyInputs] :
        item.product_id \in ProductIds \/ item.quantity = 1}

ItemLists == UNION {[1..n -> OrderItemInput] : n \in 0..MaxItems}

\* OrderSchema as save reads it (date, delivery_method and status are copied
\* through unchanged and carry one value each)
OrderSchema ==
    [client_id : ClientInputs, bill_id : BillInputs, items : ItemLists,
     discount_pct : PctInputs, total : TotalInputs,
     delivery_method : {"DRIVE_THRU"}, status : {"PENDING"}]

\* ------------------------------------------------------- str(n) and int(s)
Digits == <<"0", "1", "2", "3", "4", "5", "6", "7", "8", "9">>
DigitChars == {Digits[i] : i \in 1..10}
DigitValue(c) == (CHOOSE i \in 1..10 : Digits[i] = c) - 1

RECURSIVE StrNat(_)
\* decimal digits of a natural number
StrNat(n) == IF n < 10 THEN <<Digits[n + 1]>>
             ELSE Append(StrNat(n \div 10), Digits[(n % 10) + 1])

\* Python str(int)
Str(n) == IF n < 0 THEN <<"-">> \o StrNat(-n) ELSE StrNat(n)

RECURSIVE Strip(_)
\* str.strip() for the blank character
Strip(s) ==
    IF s = <<>> THEN s
    ELSE IF Head(s) = " " THEN Strip(Tail(s))
    ELSE IF s[Len(s)] = " " THEN Strip(SubSeq(s, 1, Len(s) - 1))
    ELSE s

\* digits, with single underscores allowed between digits
IsDigitBody(s) ==
    /\ Len(s) > 0
    /\ s[1] \in DigitChars
    /\ s[Len(s)] \in DigitChars
    /\ \A i \in 1..Len(s) : s[i] \in DigitChars \cup {"_"}
    /\ \A i \in 1..(Len(s) - 1) : ~(s[i] = "_" /\ s[i + 1] = "_")

RECURSIVE DigitsValue(_, _)
DigitsValue(s, acc) ==
    IF s = <<>> THEN acc
    ELSE IF Head(s) = "_" THEN DigitsValue(Tail(s), acc)
    ELSE DigitsValue(Tail(s), acc * 10 + DigitValue(Head(s)))

\* Python int(str): None where int raises ValueError, else the value
ParseInt(s) ==
    LET t == Strip(s)
        signed == t # <<>> /\ Head(t) \in {"+", "-"}
        body == IF signed THEN Tail(t) ELSE t
    IN  IF ~IsDigitBody(body) THEN None
        ELSE IF signed /\ Head(t) = "-" THEN Some(0 - DigitsValue(body, 0))
        ELSE Some(DigitsValue(body, 0))

\* ------------------------------------------------------------------- state
VARIABLES
    db,        \* committed rows: clients, products, orders, bills, details
    billSeq,   \* the bills table's id sequence (last value handed out)
    pc,        \* pc[p]: position of caller p inside save
    req,       \* req[p]: the schema object of the call (save assigns to it)
    sess,      \* sess[p]: the session's unit of work (identity map, pending rows)
    loc,       \* loc[p]: save's local variables
    result,    \* result[p]: None while running, then the return value or the exception
    log,       \* log[p]: the calls the current save has made on its collaborators
    pre,       \* pre[p]: the committed store and the schema when the call started
    calls,     \* number of save calls started
    placed     \* the placements committed so far, in commit order

vars == <<db, billSeq, pc, req, sess, loc, result, log, pre, calls, placed>>

EmptyFn == <<>>

\* a session with nothing loaded and nothing pending
EmptySession == [products |-> EmptyFn, orders |-> EmptyFn, bills |-> EmptyFn,
                 details |-> <<>>]

InitLoc == [product_cache |-> {}, subtotal |-> 0, discount_amount |-> 0,
            total |-> 0, next_number |-> None, alloc_failure |-> "none"]

NoRequest == [client_id |-> 1, bill_id |-> None, items |-> <<>>,
              discount_pct |-> None, total |-> 7,
              delivery_method |-> "DRIVE_THRU", status |-> "PENDING"]

InitialBill(bn) == [bill_number |-> bn, discount |-> 0, total |-> 0,
                    payment_type |-> "CARD", client_id |-> 1]

\* the stores a behaviour may start from: one without bills, whose product 1
\* has no price, and one with a numbered and an unnumbered bill
InitialStores ==
    {[clients |-> {1},
      products |-> (1 :> [stock |-> 2, price |-> None])
                   @@ (2 :> [stock |-> 1, price |-> Some(3)]),
      orders |-> EmptyFn, bills |-> EmptyFn, details |-> <<>>],
     [clients |-> {1},
      products |-> (1 :> [stock |-> 2, price |-> Some(5)])
                   @@ (2 :> [stock |-> 1, price |-> Some(3)]),
      orders |-> EmptyFn,
      bills |-> (1 :> InitialBill(<<"1", "0", "0", "4">>))
                @@ (2 :> InitialBill(<<"B", "-", "7">>)),
      details |-> <<>>]}

Init ==
    /\ db \in InitialStores
    /\ billSeq = Cardinality(DOMAIN db.bills)
    /\ pc = [p \in Procs |-> "idle"]
    /\ req = [p \in Procs |-> NoRequest]
    /\ sess = [p \in Procs |-> EmptySession]
    /\ loc = [p \in Procs |-> InitLoc]
    /\ result = [p \in Procs |-> None]
    /\ log = [p \in Procs |-> <<>>]
    /\ pre = [p \in Procs |-> [db |-> db, schema |-> NoRequest]]
    /\ calls = 0
    /\ placed = <<>>

\* ------------------------------------------------------------- exceptions
InstanceNotFoundError(entity, id) ==
    [kind |-> "InstanceNotFoundError", entity |-> entity, id |-> id]

\* the ValueError of lines 90-93 and 114-117: "Disponible: ..., solicitado: ..."
StockError(product_id, disponible, solicitado) ==
    [kind |-> "ValueError", product |-> product_id,
     disponible |-> disponible, solicitado |-> solicitado]

IntegrityError == [kind |-> "IntegrityError"]
OperationalError == [kind |-> "OperationalError"]

Raised(e) == Some([ok |-> FALSE, error |-> e])
Returned(order) == Some([ok |-> TRUE, order |-> order])

\* ------------------------------------------------------------ the session
\* session.get(ProductModel, id): the identity map's object, else the row
GetProduct(s, pid) ==
    IF pid \in DOMAIN s.products THEN Some(s.products[pid])
    ELSE IF pid \in DOMAIN db.products THEN Some(db.products[pid])
    ELSE None

\* session.get(BillModel, id)
GetBill(s, bid) ==
    IF bid \in DOMAIN s.bills THEN Some(s.bills[bid])
    ELSE IF bid \in DOMAIN db.bills THEN Some(db.bills[bid])
    ELSE None

\* the rows a query of the session sees
\* a query that would also read the rows other sessions have flushed
VisibleOrdersUncommitted(s) ==
    s.orders @@ sess[1].orders @@ sess[2].orders @@ db.orders

VisibleOrders(s) == s.orders @@ db.orders
VisibleBills(s) == s.bills @@ db.bills

\* session.commit(): the unit of work becomes the committed store
Committed(s) ==
    [db EXCEPT
       !.products = [pid \in DOMAIN db.products |->
                       IF pid \in DOMAIN s.products
                       THEN [@[pid] EXCEPT !.stock = s.products[pid].stock]
                       ELSE @[pid]],
       !.orders = s.orders @@ @,
       !.bills = s.bills @@ @,
       !.details = @ \o s.details]

\* ---------------------------------------------------------- the allocator
SetMax(S) == CHOOSE m \in S : \A x \in S : x <= m

\* query(OrderModel.id_key).order_by(desc).limit(1).scalar(): None without rows
MaxOrderQuery(orders) ==
    IF DOMAIN orders = {} THEN None ELSE Some(SetMax(DOMAIN orders))

\* a scan that reads no bill number
ScanNoBillNumbers(rows, max_val) == max_val

RECURSIVE ScanBillNumbers(_, _)
\* lines 56-62: the loop over the bill_number rows; a number that does not
\* parse is skipped
ScanBillNumbers(rows, max_val) ==
    IF rows = <<>> THEN max_val
    ELSE LET num == ParseInt(Head(rows))
         IN  IF ~IsNone(num) /\ Val(num) > max_val
             THEN ScanBillNumbers(Tail(rows), Val(num))
             ELSE ScanBillNumbers(Tail(rows), max_val)

RECURSIVE BillNumberRows(_)
\* query(BillModel.bill_number).all(), in id order
BillNumberRows(bills) ==
    IF DOMAIN bills = {} THEN <<>>
    ELSE LET last == SetMax(DOMAIN bills)
         IN  Append(BillNumberRows([b \in DOMAIN bills \ {last} |-> bills[b]]),
                    bills[last].bill_number)

\* lines 52-53: if max_order and max_order > max_val
AfterOrderQuery(max_order, max_val) ==
    IF ~IsNone(max_order) /\ Val(max_order) # 0 /\ Val(max_order) > max_val
    THEN Val(max_order) ELSE max_val

\* _generate_next_order_number; failure says which lookup raises ("none",
\* "order_query", "bill_query"): the except clause of line 63 keeps max_val
\* as it stands when the lookup raises
GenerateNextOrderNumber(orders, bills, failure) ==
    LET max_val0 == InitialMaxVal
        max_val1 == IF failure = "order_query" THEN max_val0
                    ELSE AfterOrderQuery(MaxOrderQuery(orders), max_val0)
        max_val2 == IF failure \in {"order_query", "bill_query"} THEN max_val1
                    ELSE ScanBillNumbers(BillNumberRows(bills), max_val1)
    IN  max_val2 + 1

\* ------------------------------------------------- pre-check and pricing
\* product.price or 0
PriceOrZero(product) ==
    IF IsNone(product.price) THEN 0 ELSE Val(product.price)

\* an off-by-one pre-check: lets through a quantity one above the stock
StockInsufficientOffByOne(stock, quantity) == stock + 1 < quantity

\* line 89: product.stock < item.quantity (the stock column holds integers
\* here, so the "is None" half of the test never fires)
StockInsufficient(stock, quantity) == stock < quantity

RECURSIVE PreCheckLoop(_, _, _)
\* lines 85-96 from item i on; st = [error, session, product_cache, subtotal,
\* lookups]
PreCheckLoop(items, i, st) ==
    IF i > Len(items) THEN st
    ELSE LET item == items[i]
             product == GetProduct(st.session, item.product_id)
             seen == [st EXCEPT !.lookups = @ + 1]
         IN  IF IsNone(product)
             THEN [seen EXCEPT !.error =
                     Some(InstanceNotFoundError("Product", item.product_id))]
             ELSE IF StockInsufficient(Val(product).stock, item.quantity)
             THEN [seen EXCEPT !.error =
                     Some(StockError(item.product_id, Val(product).stock,
                                     item.quantity))]
             ELSE PreCheckLoop(items, i + 1,
                    [seen EXCEPT
                       !.session.products =
                           (item.product_id :> Val(product)) @@ @,
                       !.product_cache = @ \cup {item.product_id},
                       !.subtotal = @ + PriceOrZero(Val(product)) * item.quantity])

\* schema.discount_pct or 0
DiscountPct(schema) ==
    IF IsNone(schema.discount_pct) THEN 0 ELSE Val(schema.discount_pct)

\* the percentage taken as a fraction: subtotal * discount_pct, not / 100
DiscountAmountNoDivision(subtotal, discount_pct) ==
    IF discount_pct > 0 THEN subtotal * discount_pct * PctDenominator ELSE 0

\* line 100, as a numerator over PctDenominator
DiscountAmount(subtotal, discount_pct) ==
    IF discount_pct > 0 THEN subtotal * discount_pct ELSE 0

Max2(a, b) == IF a >= b THEN a ELSE b

\* line 101, as a numerator over PctDenominator
Total(subtotal, discount_amount) ==
    Max2(subtotal * PctDenominator - discount_amount, 0)

\* ------------------------------------------------------- stock decrement
\* no check after the decrement
StockViolatedNever(stock) == FALSE

\* line 113: the check after product.stock -= item.quantity
StockViolated(stock) == stock < 0

RECURSIVE DecrementLoopPerLine(_, _, _)
\* a loop that tests each line against the committed stock of its product
DecrementLoopPerLine(items, i, st) ==
    IF i > Len(items) THEN st
    ELSE LET item == items[i]
             product == st.session.products[item.product_id]
             stock == product.stock - item.quantity
             session == [st.session EXCEPT
                           !.products[item.product_id].stock = stock]
             alone == db.products[item.product_id].stock - item.quantity
         IN  IF StockViolated(alone)
             THEN [error |-> Some(StockError(item.product_id, stock, item.quantity)),
                   session |-> session]
             ELSE DecrementLoopPerLine(items, i + 1, [st EXCEPT !.session = session])

RECURSIVE DecrementLoop(_, _, _)
\* lines 110-118 from item i on; st = [error, session]
DecrementLoop(items, i, st) ==
    IF i > Len(items) THEN st
    ELSE LET item == items[i]
             product == st.session.products[item.product_id]
             stock == product.stock - item.quantity
             session == [st.session EXCEPT
                           !.products[item.product_id].stock = stock]
         IN  IF StockViolated(stock)
             THEN [error |-> Some(StockError(item.product_id, stock, item.quantity)),
                   session |-> session]
             ELSE DecrementLoop(items, i + 1, [st EXCEPT !.session = session])

\* detail rows that record one unit whatever the quantity of the line
OrderDetailsOneUnit(items, order_id, session) ==
    [i \in 1..Len(items) |->
        [order_id |-> order_id, product_id |-> items[i].product_id,
         quantity |-> 1,
         price |-> session.products[items[i].product_id].price]]

\* detail rows that carry no price
OrderDetailsUnpriced(items, order_id, session) ==
    [i \in 1..Len(items) |->
        [order_id |-> order_id, product_id |-> items[i].product_id,
         quantity |-> items[i].quantity, price |-> None]]

\* lines 160-168: one OrderDetailModel per item
OrderDetails(items, order_id, session) ==
    [i \in 1..Len(items) |->
        [order_id |-> order_id, product_id |-> items[i].product_id,
         quantity |-> items[i].quantity,
         price |-> session.products[items[i].product_id].price]]

\* ------------------------------------------------------ rows save creates
\* lines 121-128: the OrderModel, bill_id not yet set
NewOrder(schema, next_number, total) ==
    [id_key |-> next_number, total |-> total,
     delivery_method |-> schema.delivery_method, status |-> schema.status,
     client_id |-> schema.client_id, bill_id |-> None]

\* lines 134-141: the BillModel of a placement without bill_id
\* a bill created without the discount of the order
NewBillNoDiscount(schema, next_number, discount_amount, total) ==
    [bill_number |-> Str(next_number), discount |-> 0,
     total |-> total, payment_type |-> "CASH", client_id |-> schema.client_id]

NewBill(schema, next_number, discount_amount, total) ==
    [bill_number |-> Str(next_number), discount |-> discount_amount,
     total |-> total, payment_type |-> "CASH", client_id |-> schema.client_id]

\* the supplied bill keeps its number
NotRenumbered(bill, next_number) == bill

\* an update that also resets the payment type of the bill
RenumberedAsCash(bill, next_number) ==
    [bill EXCEPT !.bill_number = Str(next_number), !.payment_type = "CASH"]

\* line 151: bill.bill_number = str(next_number)
Renumbered(bill, next_number) ==
    [bill EXCEPT !.bill_number = Str(next_number)]

\* the order is left without its bill
Unlinked(order, bill_id) == order

\* line 156: order_model.bill_id = schema.bill_id
Linked(order, bill_id) == [order EXCEPT !.bill_id = bill_id]

\* a validation that accepts every client id
ClientExistsAlways(client_id) == TRUE

\* line 75: self._client_repository.find(schema.client_id) finds a row
ClientExists(client_id) == client_id \in db.clients

\* the INSERT of line 130 meets a row with the same primary key
OrderIdTaken(id) == id \in DOMAIN db.orders

\* a rollback that keeps what the flushes wrote (as with an autocommitting
\* connection)
RolledBackKeepsFlushed(s) == [store |-> Committed(s), session |-> EmptySession]

\* line 179: session.rollback() leaves the committed store as it is and
\* empties the unit of work
RolledBack(s) == [store |-> db, session |-> EmptySession]

\* the failure of delete_pattern reaches the caller
AfterInvalidationPropagating(ok, order) ==
    IF ok THEN Returned(order) ELSE Raised(OperationalError)

\* lines 173-177: what save hands back after delete_pattern, which succeeded
\* (ok) or raised
AfterInvalidation(ok, order) == Returned(order)

\* ---------------------------------------------------------------- actions
Logged(p, events) == log' = [log EXCEPT ![p] = @ \o events]

\* an exception leaves save before the try block of line 108
Raise(p, e) ==
    /\ result' = [result EXCEPT ![p] = Raised(e)]
    /\ pc' = [pc EXCEPT ![p] = "done"]

\* lines 178-181: rollback, then the exception leaves save
RollbackAndRaise(p, s, e) ==
    /\ db' = RolledBack(s).store
    /\ sess' = [sess EXCEPT ![p] = RolledBack(s).session]
    /\ result' = [result EXCEPT ![p] = Raised(e)]
    /\ pc' = [pc EXCEPT ![p] = "done"]

\* a caller enters save(schema) with a session of its own
Start(p, schema) ==
    /\ pc[p] = "idle"
    /\ calls < MaxSaves
    /\ calls' = calls + 1
    /\ pc' = [pc EXCEPT ![p] = "validate_client"]
    /\ req' = [req EXCEPT ![p] = schema]
    /\ sess' = [sess EXCEPT ![p] = EmptySession]
    /\ loc' = [loc EXCEPT ![p] = InitLoc]
    /\ result' = [result EXCEPT ![p] = None]
    /\ log' = [log EXCEPT ![p] = <<>>]
    /\ pre' = [pre EXCEPT ![p] = [db |-> db, schema |-> schema]]
    /\ UNCHANGED <<db, billSeq, placed>>

\* lines 73-81
ValidateClient(p) ==
    /\ pc[p] = "validate_client"
    /\ Logged(p, <<"find_client">>)
    /\ IF ClientExists(req[p].client_id)
       THEN /\ pc' = [pc EXCEPT ![p] = "pre_check"]
            /\ UNCHANGED result
       ELSE Raise(p, InstanceNotFoundError("Client", req[p].client_id))
    /\ UNCHANGED <<db, billSeq, req, sess, loc, pre, calls, placed>>

\* lines 83-103
PreCheck(p) ==
    /\ pc[p] = "pre_check"
    /\ LET st == PreCheckLoop(req[p].items, 1,
                   [error |-> None, session |-> sess[p], product_cache |-> {},
                    subtotal |-> 0, lookups |-> 0])
           discount_amount == DiscountAmount(st.subtotal, DiscountPct(req[p]))
           total == Total(st.subtotal, discount_amount)
       IN  /\ Logged(p, [i \in 1..st.lookups |-> "get_product"])
           /\ sess' = [sess EXCEPT ![p] = st.session]
           /\ IF IsNone(st.error)
              THEN /\ loc' = [loc EXCEPT ![p].product_cache = st.product_cache,
                                         ![p].subtotal = st.subtotal,
                                         ![p].discount_amount = discount_amount,
                                         ![p].total = total]
                   /\ req' = [req EXCEPT ![p].total = total]
                   /\ pc' = [pc EXCEPT ![p] = "allocate"]
                   /\ UNCHANGED result
              ELSE /\ Raise(p, Val(st.error))
                   /\ UNCHANGED <<loc, req>>
    /\ UNCHANGED <<db, billSeq, pre, calls, placed>>

\* line 106
Allocate(p) ==
    /\ pc[p] = "allocate"
    /\ \E failure \in {"none", "order_query", "bill_query"} :
          loc' = [loc EXCEPT
                    ![p].next_number =
                        Some(GenerateNextOrderNumber(VisibleOrders(sess[p]),
                                                     VisibleBills(sess[p]), failure)),
                    ![p].alloc_failure = failure]
    /\ Logged(p, <<"generate_next_order_number">>)
    /\ pc' = [pc EXCEPT ![p] = "update_stock"]
    /\ UNCHANGED <<db, billSeq, req, sess, result, pre, calls, placed>>

\* lines 109-118
UpdateStock(p) ==
    /\ pc[p] = "update_stock"
    /\ LET st == DecrementLoop(req[p].items, 1,
                               [error |-> None, session |-> sess[p]])
       IN  IF IsNone(st.error)
           THEN /\ sess' = [sess EXCEPT ![p] = st.session]
                /\ pc' = [pc EXCEPT ![p] = "create_order"]
                /\ Logged(p, <<"update_stock">>)
                /\ UNCHANGED <<db, result>>
           ELSE /\ RollbackAndRaise(p, st.session, Val(st.error))
                /\ Logged(p, <<"update_stock", "rollback">>)
    /\ UNCHANGED <<billSeq, req, loc, pre, calls, placed>>

\* lines 120-130
CreateOrder(p) ==
    /\ pc[p] = "create_order"
    /\ LET id == Val(loc[p].next_number)
           s == [sess[p] EXCEPT
                   !.orders = (id :> NewOrder(req[p], id, loc[p].total)) @@ @]
       IN  IF OrderIdTaken(id)
           THEN /\ RollbackAndRaise(p, s, IntegrityError)
                /\ Logged(p, <<"flush_order", "rollback">>)
           ELSE /\ sess' = [sess EXCEPT ![p] = s]
                /\ pc' = [pc EXCEPT ![p] = "resolve_bill"]
                /\ Logged(p, <<"flush_order">>)
                /\ UNCHANGED <<db, result>>
    /\ UNCHANGED <<billSeq, req, loc, pre, calls, placed>>

\* lines 132-153
ResolveBill(p) ==
    /\ pc[p] = "resolve_bill"
    /\ LET id == Val(loc[p].next_number)
       IN  IF IsNone(req[p].bill_id)
           THEN /\ billSeq' = billSeq + 1
                /\ sess' = [sess EXCEPT ![p].bills =
                              ((billSeq + 1) :>
                                  NewBill(req[p], id, loc[p].discount_amount,
                                          loc[p].total)) @@ @]
                /\ req' = [req EXCEPT ![p].bill_id = Some(billSeq + 1)]
                /\ pc' = [pc EXCEPT ![p] = "create_details"]
                /\ Logged(p, <<"flush_bill">>)
                /\ UNCHANGED <<db, result>>
           ELSE LET bill == GetBill(sess[p], Val(req[p].bill_id))
                IN  IF IsNone(bill)
                    THEN /\ RollbackAndRaise(p, sess[p],
                               InstanceNotFoundError("Bill", Val(req[p].bill_id)))
                         /\ Logged(p, <<"get_bill", "rollback">>)
                         /\ UNCHANGED <<billSeq, req>>
                    ELSE /\ sess' = [sess EXCEPT ![p].bills =
                                       (Val(req[p].bill_id) :>
                                           Renumbered(Val(bill), id)) @@ @]
                         /\ pc' = [pc EXCEPT ![p] = "create_details"]
                         /\ Logged(p, <<"get_bill", "flush_bill">>)
                         /\ UNCHANGED <<db, result, billSeq, req>>
    /\ UNCHANGED <<loc, pre, calls, placed>>

\* lines 155-168
CreateDetails(p) ==
    /\ pc[p] = "create_details"
    /\ LET id == Val(loc[p].next_number)
       IN  sess' = [sess EXCEPT
                      ![p].orders[id] = Linked(@, req[p].bill_id),
                      ![p].details = @ \o OrderDetails(req[p].items, id, sess[p])]
    /\ pc' = [pc EXCEPT ![p] = "commit"]
    /\ UNCHANGED <<db, billSeq, req, loc, result, log, pre, calls, placed>>

\* line 170; the commit goes through (ok) or the storage layer raises
Commit(p) ==
    /\ pc[p] = "commit"
    /\ \E ok \in BOOLEAN :
          LET id == Val(loc[p].next_number)
              bill == GetBill(sess[p], Val(req[p].bill_id))
          IN  IF ok /\ ~OrderIdTaken(id)
              THEN /\ db' = Committed(sess[p])
                   /\ sess' = [sess EXCEPT ![p] = EmptySession]
                   /\ placed' = Append(placed,
                         [id |-> id, bill_number |-> Val(bill).bill_number])
                   /\ pc' = [pc EXCEPT ![p] = "invalidate_cache"]
                   /\ Logged(p, <<"commit">>)
                   /\ UNCHANGED result
              ELSE /\ RollbackAndRaise(p, sess[p],
                         IF OrderIdTaken(id) THEN IntegrityError
                         ELSE OperationalError)
                   /\ Logged(p, <<"commit_failed", "rollback">>)
                   /\ UNCHANGED placed
    /\ UNCHANGED <<billSeq, req, loc, pre, calls>>

\* lines 171-177; delete_pattern("products:*") succeeds (ok) or raises
InvalidateCache(p) ==
    /\ pc[p] = "invalidate_cache"
    /\ \E ok \in BOOLEAN :
          /\ Logged(p, IF ok THEN <<"delete_pattern">>
                       ELSE <<"delete_pattern", "delete_pattern_failed">>)
          /\ result' = [result EXCEPT ![p] =
                AfterInvalidation(ok, db.orders[Val(loc[p].next_number)])]
    /\ pc' = [pc EXCEPT ![p] = "done"]
    /\ UNCHANGED <<db, billSeq, req, sess, loc, pre, calls, placed>>

\* the call is over: the caller has the order or the exception, and the
\* service object, its session and the schema are dropped
Return(p) ==
    /\ pc[p] = "done"
    /\ pc' = [pc EXCEPT ![p] = "idle"]
    /\ req' = [req EXCEPT ![p] = NoRequest]
    /\ sess' = [sess EXCEPT ![p] = EmptySession]
    /\ loc' = [loc EXCEPT ![p] = InitLoc]
    /\ result' = [result EXCEPT ![p] = None]
    /\ log' = [log EXCEPT ![p] = <<>>]
    /\ pre' = [pre EXCEPT ![p] = [db |-> db, schema |-> NoRequest]]
    /\ UNCHANGED <<db, billSeq, calls, placed>>

Save(p) ==
    \/ \E schema \in OrderSchema : Start(p, schema)
    \/ ValidateClient(p)
    \/ PreCheck(p)
    \/ Allocate(p)
    \/ UpdateStock(p)
    \/ CreateOrder(p)
    \/ ResolveBill(p)
    \/ CreateDetails(p)
    \/ Commit(p)
    \/ InvalidateCache(p)
    \/ Return(p)

\* sequential calls: one caller, one save at a time
Next == \E p \in Sequential : Save(p)

Spec == Init /\ [][Next]_vars

\* ------------------------------------------------------------ properties
Finished(p) == pc[p] = "done"
Failed(p) == pc[p] = "done" /\ ~Val(result[p]).ok
Succeeded(p) == pc[p] = "done" /\ Val(result[p]).ok
ErrorOf(p) == Val(result[p]).error

\* the request as the caller passed it, and the store it met
GivenSchema(p) == pre[p].schema
StoreBefore(p) == pre[p].db
ClientKnown(p) == GivenSchema(p).client_id \in StoreBefore(p).clients

\* item i names no product, or asks for more than the product's stock
BadItem(items, i, products) ==
    \/ items[i].product_id \notin DOMAIN products
    \/ items[i].quantity > products[items[i].product_id].stock

HasBadItem(items, products) ==
    \E i \in 1..Len(items) : BadItem(items, i, products)

FirstBadItem(items, products) ==
    CHOOSE i \in 1..Len(items) :
        /\ BadItem(items, i, products)
        /\ \A j \in 1..(i - 1) : ~BadItem(items, j, products)

IsProductNotFound(e, product_id) ==
    /\ e.kind = "InstanceNotFoundError"
    /\ e.entity = "Product"
    /\ e.id = product_id

IsInsufficientStock(e, product_id) ==
    /\ e.kind = "ValueError"
    /\ e.product = product_id

\* C1: a save whose item list names a missing product, or holds an item
\* asking for more than its product's stock, fails and leaves the committed
\* store as it was (same stock, no order, bill or detail row added); with a
\* known client the error is the one of the first such item: NotFound for a
\* missing product, insufficient stock for the quantity.
C1_BadItemFailsStoreUnchanged ==
    \A p \in Procs :
        (Finished(p) /\ HasBadItem(GivenSchema(p).items, StoreBefore(p).products))
        => /\ Failed(p)
           /\ db = StoreBefore(p)
           /\ ClientKnown(p) =>
                LET items == GivenSchema(p).items
                    item == items[FirstBadItem(items, StoreBefore(p).products)]
                IN  IF item.product_id \notin DOMAIN StoreBefore(p).products
                    THEN IsProductNotFound(ErrorOf(p), item.product_id)
                    ELSE IsInsufficientStock(ErrorOf(p), item.product_id)

\* a save has failed on an item asking for more than the stock, with a
\* missing product further down the list
C1_Witness ==
    \E p \in Procs :
        /\ Failed(p)
        /\ ClientKnown(p)
        /\ LET items == GivenSchema(p).items
           IN  /\ Len(items) = 2
               /\ items[1].product_id \in DOMAIN StoreBefore(p).products
               /\ items[1].quantity > StoreBefore(p).products[items[1].product_id].stock
               /\ items[2].product_id \notin DOMAIN StoreBefore(p).products
        /\ ErrorOf(p).kind = "ValueError"
        /\ db = StoreBefore(p)

RECURSIVE SumQty(_, _)
\* the total quantity the item list asks of product pid
SumQty(items, pid) ==
    IF items = <<>> THEN 0
    ELSE (IF Head(items).product_id = pid THEN Head(items).quantity ELSE 0)
         + SumQty(Tail(items), pid)

\* every item names a product of the store, and the store holds the total
\* quantity asked of every product
ItemsCovered(items, products) ==
    /\ \A i \in 1..Len(items) : items[i].product_id \in DOMAIN products
    /\ \A pid \in DOMAIN products : SumQty(items, pid) <= products[pid].stock

\* event a occurs in the log of p, and before event b
Did(p, a) == \E i \in 1..Len(log[p]) : log[p][i] = a
DidBefore(p, a, b) ==
    \E i, j \in 1..Len(log[p]) : i < j /\ log[p][i] = a /\ log[p][j] = b

BillUnknown(p) ==
    /\ ~IsNone(GivenSchema(p).bill_id)
    /\ Val(GivenSchema(p).bill_id) \notin DOMAIN StoreBefore(p).bills

C3_UnknownClientFailsFirst ==
    \A p \in Procs :
        (Finished(p) /\ ~ClientKnown(p))
        => /\ Failed(p)
           /\ ErrorOf(p) = InstanceNotFoundError("Client", GivenSchema(p).client_id)
           /\ log[p] = <<"find_client">>
           /\ IsNone(loc[p].next_number)
           /\ sess[p] = EmptySession
           /\ db = StoreBefore(p)

\* a save with items and a bill_id has failed on its unknown client
C3_Witness ==
    \E p \in Procs :
        /\ Failed(p)
        /\ ~ClientKnown(p)
        /\ GivenSchema(p).items # <<>>
        /\ ~IsNone(GivenSchema(p).bill_id)
        /\ ErrorOf(p).kind = "InstanceNotFoundError"

ReturnedOrder(p) == Val(result[p]).order

\* C4: the order a successful save returns, with or without a supplied
\* bill_id, has a bill_id that is the id of a bill of the committed store,
\* and that bill's bill_number parses to the order's id.
C4_OrderLinkedToBillWithItsNumber ==
    \A p \in Procs :
        Succeeded(p)
        => LET order == ReturnedOrder(p)
           IN  /\ order.id_key \in DOMAIN db.orders
               /\ db.orders[order.id_key] = order
               /\ ~IsNone(order.bill_id)
               /\ Val(order.bill_id) \in DOMAIN db.bills
               /\ ParseInt(db.bills[Val(order.bill_id)].bill_number)
                    = Some(order.id_key)

\* a save that supplied a bill whose number did not parse has succeeded
C4_Witness ==
    \E p \in Procs :
        /\ Succeeded(p)
        /\ ~IsNone(GivenSchema(p).bill_id)
        /\ IsNone(ParseInt(StoreBefore(p).bills[Val(GivenSchema(p).bill_id)].bill_number))
        /\ ParseInt(db.bills[Val(ReturnedOrder(p).bill_id)].bill_number)
             = Some(ReturnedOrder(p).id_key)

\* C5: a successful save reduces the stock of every product by exactly the
\* total quantity its items ask of it (a product no item names keeps its
\* stock), and in every committed store no product's stock is negative.
C5_StockDecrementExactNonNegative ==
    /\ \A pid \in DOMAIN db.products : db.products[pid].stock >= 0
    /\ \A p \in Procs :
          Succeeded(p)
          => \A pid \in DOMAIN db.products :
                db.products[pid].stock
                  = StoreBefore(p).products[pid].stock
                    - SumQty(GivenSchema(p).items, pid)

\* a save with two lines for the same product has succeeded and has taken
\* both quantities from its stock
C5_Witness ==
    \E p \in Procs :
        /\ Succeeded(p)
        /\ Len(GivenSchema(p).items) = 2
        /\ GivenSchema(p).items[1].product_id = GivenSchema(p).items[2].product_id
        /\ LET pid == GivenSchema(p).items[1].product_id
           IN  db.products[pid].stock = StoreBefore(p).products[pid].stock - 2
        /\ \E pid \in DOMAIN db.products :
              /\ SumQty(GivenSchema(p).items, pid) = 0
              /\ db.products[pid].stock = StoreBefore(p).products[pid].stock

RECURSIVE Subtotal(_, _)
\* sum over the items of product price times quantity, a missing price
\* counting as 0
Subtotal(items, products) ==
    IF items = <<>> THEN 0
    ELSE LET price == products[Head(items).product_id].price
         IN  (IF IsNone(price) THEN 0 ELSE Val(price)) * Head(items).quantity
             + Subtotal(Tail(items), products)

\* C6: for a successful save (prices >= 0, discount_pct in [0, 100]) the
\* stored order total is max(subtotal - subtotal*discount_pct/100, 0), with
\* subtotal the sum of price times quantity; it is >= 0 and does not depend
\* on the total of the request.  Totals are numerators over PctDenominator.
C6_TotalIsDiscountedSubtotal ==
    \A p \in Procs :
        Succeeded(p)
        => LET subtotal == Subtotal(GivenSchema(p).items, StoreBefore(p).products)
               pct == IF IsNone(GivenSchema(p).discount_pct) THEN 0
                      ELSE Val(GivenSchema(p).discount_pct)
               expected == subtotal * PctDenominator - subtotal * pct
               stored == db.orders[ReturnedOrder(p).id_key].total
           IN  /\ stored = (IF expected >= 0 THEN expected ELSE 0)
               /\ stored >= 0
               /\ ReturnedOrder(p).total = stored

\* a save with a discount on priced items has succeeded: the stored total is
\* positive, below the subtotal, and not the total of the request
C6_Witness ==
    \E p \in Procs :
        /\ Succeeded(p)
        /\ ~IsNone(GivenSchema(p).discount_pct)
        /\ LET stored == db.orders[ReturnedOrder(p).id_key].total
               subtotal == Subtotal(GivenSchema(p).items, StoreBefore(p).products)
           IN  /\ stored > 0
               /\ stored < subtotal * PctDenominator
               /\ stored # GivenSchema(p).total * PctDenominator

\* the number the allocator of caller p returned
Allocated(p) == Val(loc[p].next_number)
AllocatorRan(p) == pc[p] = "update_stock"

\* C7: when both lookups succeed, the allocator returns a number >= 1000,
\* above every order id and above every bill number that parses; a bill
\* number that does not parse is passed over; with no orders and no bills
\* the number is 1000.
C7_NextNumberAboveAll ==
    \A p \in Procs :
        (AllocatorRan(p) /\ loc[p].alloc_failure = "none")
        => /\ Allocated(p) >= InitialMaxVal + 1
           /\ \A id \in DOMAIN db.orders : Allocated(p) > id
           /\ \A b \in DOMAIN db.bills :
                 LET num == ParseInt(db.bills[b].bill_number)
                 IN  ~IsNone(num) => Allocated(p) > Val(num)
           /\ (DOMAIN db.orders = {} /\ DOMAIN db.bills = {})
                 => Allocated(p) = InitialMaxVal + 1

\* the allocator has run over a store with an order, a bill whose number
\* parses and a bill whose number does not
C7_Witness ==
    \E p \in Procs :
        /\ AllocatorRan(p)
        /\ loc[p].alloc_failure = "none"
        /\ DOMAIN db.orders # {}
        /\ \E b \in DOMAIN db.bills : IsNone(ParseInt(db.bills[b].bill_number))
        /\ \E b \in DOMAIN db.bills :
              /\ ~IsNone(ParseInt(db.bills[b].bill_number))
              /\ Allocated(p) = Val(ParseInt(db.bills[b].bill_number)) + 1

\* the number of placement k of the run is above the number of each earlier
\* placement, as order id and as bill number
AboveEarlier(k) ==
    \A i \in 1..(k - 1) :
        /\ placed[k].id > placed[i].id
        /\ ~IsNone(ParseInt(placed[k].bill_number))
        /\ ~IsNone(ParseInt(placed[i].bill_number))
        /\ Val(ParseInt(placed[k].bill_number)) > Val(ParseInt(placed[i].bill_number))

\* C8 as stated: in a sequence of sequential saves every successful
\* placement's order id and bill number are above those of every earlier
\* successful placement.
C8_AlwaysIncreasing ==
    \A k \in 1..Len(placed) : AboveEarlier(k)

Committing(p) == pc[p] \in {"invalidate_cache", "done"} /\ Did(p, "commit")

\* C8 amended: a successful placement whose allocator read the maximum
\* order id (the order query did not fail) gets an order id and a bill
\* number above those of every earlier successful placement, also after
\* failed placements and when it supplies an existing bill.
C8_IncreasingUnlessOrderQueryFailed ==
    \A p \in Procs :
        (Committing(p) /\ loc[p].alloc_failure # "order_query")
        => /\ placed[Len(placed)].id = Allocated(p)
           /\ AboveEarlier(Len(placed))

\* a second placement, supplying the bill of the first, has committed
C8_Witness ==
    \E p \in Procs :
        /\ Committing(p)
        /\ loc[p].alloc_failure # "order_query"
        /\ Len(placed) = 2
        /\ \E id \in DOMAIN StoreBefore(p).orders :
              StoreBefore(p).orders[id].bill_id = GivenSchema(p).bill_id
        /\ placed[2].id > placed[1].id

\* C9 as stated: whichever lookup fails, the allocator returns 1000 and the
\* placement goes on to the stock update.
C9_FallbackIs1000 ==
    \A p \in Procs :
        (AllocatorRan(p) /\ loc[p].alloc_failure # "none")
        => Allocated(p) = InitialMaxVal + 1

\* C10: delete_pattern is called only after the commit and never in a save
\* that fails; when it raises, save still returns the committed order, no
\* rollback follows, and the order, its bill, its detail rows and the stock
\* stay as committed.
C10_InvalidationAfterCommitSwallowed ==
    \A p \in Procs :
        /\ Did(p, "delete_pattern")
             => /\ DidBefore(p, "commit", "delete_pattern")
                /\ ~Did(p, "rollback")
                /\ ~Did(p, "commit_failed")
        /\ (Finished(p) /\ Failed(p)) => ~Did(p, "delete_pattern")
        /\ (Finished(p) /\ Did(p, "delete_pattern_failed"))
             => /\ Succeeded(p)
                /\ ReturnedOrder(p) = db.orders[Allocated(p)]
                /\ Val(ReturnedOrder(p).bill_id) \in DOMAIN db.bills
                /\ Cardinality({i \in 1..Len(db.details) :
                                   db.details[i].order_id = Allocated(p)})
                     = Len(GivenSchema(p).items)
                /\ \A pid \in DOMAIN db.products :
                      db.products[pid].stock
                        = StoreBefore(p).products[pid].stock
                          - SumQty(GivenSchema(p).items, pid)

\* a save with items has returned its order although delete_pattern raised
C10_Witness ==
    \E p \in Procs :
        /\ Succeeded(p)
        /\ Did(p, "delete_pattern_failed")
        /\ GivenSchema(p).items # <<>>
        /\ db # StoreBefore(p)

\* C11 as stated: every failure of save from the pre-check through the commit
\* (missing product, insufficient stock before or after the decrement,
\* missing bill, storage error on flush or commit) rolls the transaction
\* back, and the caller gets the error that was raised, of its own kind.
C11_EveryFailureRolledBack ==
    \A p \in Procs :
        (Failed(p) /\ Did(p, "find_client") /\ ClientKnown(p))
        => /\ Did(p, "rollback")
           /\ sess[p] = EmptySession
           /\ ErrorOf(p).kind \in {"InstanceNotFoundError", "ValueError",
                                   "IntegrityError", "OperationalError"}
           /\ db = StoreBefore(p)

----------------------------------------------------------------------------
\* Two callers, each with its own service object and session (lines 25-34),
\* running save at the same time against the same committed store.  The
\* requests are the ones that reach the allocator and create a bill: a known
\* client, no bill_id, at most one line for a product in stock, no discount.

ConcurrentSchemas ==
    {s \in OrderSchema :
        /\ s.client_id = 1
        /\ s.bill_id = None
        /\ s.discount_pct = None
        /\ Len(s.items) <= 1
        /\ \A i \in DOMAIN s.items :
              s.items[i].product_id = 1 /\ s.items[i].quantity = 1}

SaveConcurrent(p) ==
    \/ \E schema \in ConcurrentSchemas : Start(p, schema)
    \/ ValidateClient(p)
    \/ PreCheck(p)
    \/ Allocate(p)
    \/ UpdateStock(p)
    \/ CreateOrder(p)
    \/ ResolveBill(p)
    \/ CreateDetails(p)
    \/ Commit(p)
    \/ InvalidateCache(p)
    \/ Return(p)

NextConcurrent == \E p \in Procs : SaveConcurrent(p)

SpecConcurrent == Init /\ [][NextConcurrent]_vars

\* the number after the highest committed order id and the highest committed
\* numeric bill number, 1000 at least
CommittedNext ==
    LET nums == {Val(ParseInt(db.bills[b].bill_number)) :
                    b \in {c \in DOMAIN db.bills :
                              ~IsNone(ParseInt(db.bills[c].bill_number))}}
    IN  1 + SetMax({InitialMaxVal} \cup DOMAIN db.orders \cup nums)

\* the caller holds a number for which it has flushed, but not committed,
\* an order and a new bill
HoldsUncommitted(p, n) ==
    /\ pc[p] \in {"create_details", "commit"}
    /\ ~IsNone(loc[p].next_number) /\ Allocated(p) = n
    /\ n \in DOMAIN sess[p].orders /\ sess[p].orders[n].id_key = n
    /\ \E b \in DOMAIN sess[p].bills :
          /\ b \notin DOMAIN db.bills
          /\ sess[p].bills[b].bill_number = Str(n)
          /\ sess[p].orders[n].bill_id = Some(b)

\* C12: nothing serialises the allocation with the order insert: a caller
\* whose two lookups succeed is given the number that follows the committed
\* rows only, whatever numbers other callers hold for orders and bills they
\* have not committed yet, so two overlapping calls can be given the same one.
C12_AllocationIgnoresUncommitted ==
    [][\A p \in Procs :
          (/\ pc[p] = "allocate"
           /\ pc'[p] = "update_stock"
           /\ loc'[p].alloc_failure = "none")
          => Val(loc'[p].next_number) = CommittedNext]_vars

\* both callers hold the same number, each with its own uncommitted order of
\* that id and its own new bill of that number
C12_Witness ==
    \E n \in 1000..1010 :
        /\ HoldsUncommitted(1, n)
        /\ HoldsUncommitted(2, n)
        /\ n \notin DOMAIN db.orders
        /\ pc[1] = "commit" /\ pc[2] = "commit"

\* C13: lines for the same product compound.  A save succeeds only if, for
\* every product, the quantities of all its lines together are within the
\* stock the product had; when every line alone is within the stock but the
\* sum for some product is not, the save fails with the insufficient-stock
\* error for that product and the committed stock is as it was.
C13_RepeatedLinesCompound ==
    \A p \in Procs :
        LET items == GivenSchema(p).items
            products == StoreBefore(p).products
            over == {pid \in DOMAIN products : SumQty(items, pid) > products[pid].stock}
        IN  /\ Succeeded(p) => over = {}
            /\ (/\ Finished(p)
                /\ ClientKnown(p)
                /\ ~HasBadItem(items, products)
                /\ over # {})
               => /\ Failed(p)
                  /\ ErrorOf(p).kind = "ValueError"
                  /\ ErrorOf(p).product \in over
                  /\ \A pid \in DOMAIN products :
                        db.products[pid].stock = products[pid].stock
                  /\ db = StoreBefore(p)

\* a save of two lines for one product, each within the stock and together
\* above it, has failed after the pre-check let both lines through
C13_Witness ==
    \E p \in Procs :
        LET items == GivenSchema(p).items
            products == StoreBefore(p).products
        IN  /\ Failed(p)
            /\ Len(items) = 2
            /\ items[1].product_id = items[2].product_id
            /\ ~HasBadItem(items, products)
            /\ SumQty(items, items[1].product_id) > products[items[1].product_id].stock
            /\ Did(p, "update_stock")
            /\ ErrorOf(p).kind = "ValueError"
            /\ db.products = products

\* C14 as stated: in every committed store reached by successful and failed
\* saves, also saves that name the bill of an earlier order, the bill linked
\* to each order carries a bill_number numerically equal to the order's id.
C14_EveryOrderMatchesItsBill ==
    \A id \in DOMAIN db.orders :
        LET order == db.orders[id]
        IN  /\ ~IsNone(order.bill_id)
            /\ Val(order.bill_id) \in DOMAIN db.bills
            /\ ParseInt(db.bills[Val(order.bill_id)].bill_number) = Some(id)

\* C15: a successful save given the bill_id of an existing bill creates no
\* bill, links the order to that bill id, changes no field of that bill
\* other than bill_number (total, discount, payment type and client stay)
\* and changes no other bill.
C15_ExistingBillOnlyRenumbered ==
    \A p \in Procs :
        (Succeeded(p) /\ ~IsNone(GivenSchema(p).bill_id))
        => LET b == Val(GivenSchema(p).bill_id)
               before == StoreBefore(p).bills
               order == ReturnedOrder(p)
           IN  /\ b \in DOMAIN before
               /\ DOMAIN db.bills = DOMAIN before
               /\ order.bill_id = Some(b)
               /\ db.orders[order.id_key].bill_id = Some(b)
               /\ db.bills[b].total = before[b].total
               /\ db.bills[b].discount = before[b].discount
               /\ db.bills[b].payment_type = before[b].payment_type
               /\ db.bills[b].client_id = before[b].client_id
               /\ \A c \in DOMAIN before \ {b} : db.bills[c] = before[c]

\* a save given an existing bill has succeeded and the bill has a new
\* number, next to another bill that kept its own
C15_Witness ==
    \E p \in Procs :
        /\ Succeeded(p)
        /\ ~IsNone(GivenSchema(p).bill_id)
        /\ LET b == Val(GivenSchema(p).bill_id)
               before == StoreBefore(p).bills
           IN  /\ db.bills[b].bill_number # before[b].bill_number
               /\ db.bills[b].bill_number = Str(ReturnedOrder(p).id_key)
               /\ db.bills[b].payment_type = "CARD"
               /\ \E c \in DOMAIN before \ {b} : db.bills[c] = before[c]

\* C16: a successful save without bill_id creates exactly one bill: its
\* bill_number is the decimal string of the allocated id, its discount the
\* computed discount amount (subtotal * discount_pct / 100, 0 without a
\* positive discount_pct), its total the order's total, its payment type
\* cash, its client the order's client; no existing bill changes.  Amounts
\* are numerators over PctDenominator.
C16_NewBillMatchesOrder ==
    \A p \in Procs :
        (Succeeded(p) /\ IsNone(GivenSchema(p).bill_id))
        => LET before == StoreBefore(p)
               schema == GivenSchema(p)
               order == db.orders[ReturnedOrder(p).id_key]
               pct == IF IsNone(schema.discount_pct) THEN 0
                      ELSE Val(schema.discount_pct)
               added == DOMAIN db.bills \ DOMAIN before.bills
           IN  /\ Cardinality(added) = 1
               /\ DOMAIN before.bills \subseteq DOMAIN db.bills
               /\ \A c \in DOMAIN before.bills : db.bills[c] = before.bills[c]
               /\ \A b \in added :
                     /\ order.bill_id = Some(b)
                     /\ ParseInt(db.bills[b].bill_number) = Some(order.id_key)
                     /\ db.bills[b].bill_number = StrNat(order.id_key)
                     /\ db.bills[b].discount
                          = Subtotal(schema.items, before.products) * pct
                     /\ db.bills[b].total = order.total
                     /\ db.bills[b].payment_type = "CASH"
                     /\ db.bills[b].client_id = order.client_id
                     /\ order.client_id = schema.client_id

\* a discounted save of priced items without bill_id has succeeded, next to
\* bills that were there before
C16_Witness ==
    \E p \in Procs :
        /\ Succeeded(p)
        /\ IsNone(GivenSchema(p).bill_id)
        /\ DOMAIN StoreBefore(p).bills # {}
        /\ \E b \in DOMAIN db.bills \ DOMAIN StoreBefore(p).bills :
              /\ db.bills[b].discount > 0
              /\ db.bills[b].total > 0
              /\ db.bills[b].payment_type = "CASH"

----------------------------------------------------------------------------
\* Sequential saves with the product catalogue changing in between: another
\* service of the application rewrites a product's price while no save is
\* running.  The requests are those of a known client for products of the
\* store, without bill_id or discount.

PriceInputs == {Some(5), Some(8)}

CatalogSchemas ==
    {s \in OrderSchema :
        /\ s.client_id = 1
        /\ s.bill_id = None
        /\ s.discount_pct = None
        /\ \A i \in DOMAIN s.items : s.items[i].product_id \in ProductIds}

\* the price of a committed product row is overwritten
UpdateProductPrice(product_id, price) ==
    /\ \A p \in Procs : pc[p] = "idle"
    /\ product_id \in DOMAIN db.products
    /\ db.products[product_id].price # price
    /\ db' = [db EXCEPT !.products[product_id].price = price]
    /\ pre' = [p \in Procs |-> [pre[p] EXCEPT !.db = db']]
    /\ UNCHANGED <<billSeq, pc, req, sess, loc, result, log, calls, placed>>

SaveCatalog(p) ==
    \/ \E schema \in CatalogSchemas : Start(p, schema)
    \/ ValidateClient(p)
    \/ PreCheck(p)
    \/ Allocate(p)
    \/ UpdateStock(p)
    \/ CreateOrder(p)
    \/ ResolveBill(p)
    \/ CreateDetails(p)
    \/ Commit(p)
    \/ InvalidateCache(p)
    \/ Return(p)

NextCatalog ==
    \/ \E p \in Sequential : SaveCatalog(p)
    \/ \E product_id \in ProductIds, price \in PriceInputs :
          UpdateProductPrice(product_id, price)

SpecCatalog == Init /\ [][NextCatalog]_vars

\* the detail rows a save of these items makes for order id, priced from the
\* products as they were when the save began
DetailRows(items, id, products) ==
    [i \in 1..Len(items) |->
        [order_id |-> id, product_id |-> items[i].product_id,
         quantity |-> items[i].quantity,
         price |-> products[items[i].product_id].price]]

\* C17: a successful save adds exactly one detail row per item of the
\* request, in order and also for repeated product ids, each with the new
\* order's id, the item's product id and quantity and the unit price the
\* product had at the sale; and no step (a later save, successful or not, or
\* a later change of a product's price) changes or removes a detail row.
C17_DetailRowsSnapshotPrice ==
    /\ [](\A p \in Procs :
             Succeeded(p)
             => db.details
                  = StoreBefore(p).details
                    \o DetailRows(GivenSchema(p).items, ReturnedOrder(p).id_key,
                                  StoreBefore(p).products))
    /\ [][/\ Len(db.details') >= Len(db.details)
          /\ \A i \in 1..Len(db.details) : db.details'[i] = db.details[i]]_vars

\* after a sale of product 1 its price was changed, and a later save sold it
\* again at the new price: the earlier row keeps the old price
C17_Witness ==
    \E p \in Procs :
        /\ Succeeded(p)
        /\ Len(StoreBefore(p).details) = 1
        /\ Len(db.details) = 2
        /\ db.details[1].product_id = 1
        /\ db.details[2].product_id = 1
        /\ db.details[1].order_id # ReturnedOrder(p).id_key
        /\ db.details[2].order_id = ReturnedOrder(p).id_key
        /\ db.details[1].price # db.products[1].price
        /\ db.details[2].price = db.products[1].price

----------------------------------------------------------------------------
\* update(id_key, schema), lines 195-226, between sequential saves.  The
\* call is one step: it takes no number and opens no unit of work of its
\* own before delegating to the generic update of the base service.

UpdateSchemas ==
    {s \in OrderSchema :
        /\ s.discount_pct = None
        /\ Len(s.items) <= 1
        /\ \A i \in DOMAIN s.items :
              s.items[i].product_id = 1 /\ s.items[i].quantity = 2}

\* a lookup that finds every bill
BillExistsAlways(bill_id) == TRUE

\* line 220: self._bill_repository.find(schema.bill_id) finds a row
BillExists(bill_id) == bill_id \in DOMAIN db.bills

\* field-by-field overwrite of the order's columns with the schema's
Overwritten(order, schema) ==
    [order EXCEPT !.client_id = schema.client_id,
                  !.bill_id = schema.bill_id,
                  !.total = schema.total * PctDenominator,
                  !.delivery_method = schema.delivery_method,
                  !.status = schema.status]

\* super().update(id_key, schema): the generic update of the base service
GenericUpdate(id_key, schema) ==
    IF id_key \notin DOMAIN db.orders
    THEN [store |-> db,
          result |-> Raised(InstanceNotFoundError("Order", id_key))]
    ELSE LET order == Overwritten(db.orders[id_key], schema)
         IN  [store |-> [db EXCEPT !.orders[id_key] = order],
              result |-> Returned(order)]

Update(p, id_key, schema) ==
    /\ pc[p] = "idle"
    /\ calls < MaxSaves
    /\ calls' = calls + 1
    /\ pc' = [pc EXCEPT ![p] = "updated"]
    /\ req' = [req EXCEPT ![p] = schema]
    /\ pre' = [pre EXCEPT ![p] =
                  [db |-> db, schema |-> schema, id_key |-> id_key]]
    /\ IF ~ClientExists(schema.client_id)
       THEN /\ result' = [result EXCEPT ![p] =
                  Raised(InstanceNotFoundError("Client", schema.client_id))]
            /\ log' = [log EXCEPT ![p] = <<"find_client">>]
            /\ UNCHANGED db
       ELSE IF ~IsNone(schema.bill_id) /\ ~BillExists(Val(schema.bill_id))
       THEN /\ result' = [result EXCEPT ![p] =
                  Raised(InstanceNotFoundError("Bill", Val(schema.bill_id)))]
            /\ log' = [log EXCEPT ![p] = <<"find_client", "find_bill">>]
            /\ UNCHANGED db
       ELSE /\ result' = [result EXCEPT ![p] =
                  GenericUpdate(id_key, schema).result]
            /\ db' = GenericUpdate(id_key, schema).store
            /\ log' = [log EXCEPT ![p] =
                  IF IsNone(schema.bill_id)
                  THEN <<"find_client", "super_update">>
                  ELSE <<"find_client", "find_bill", "super_update">>]
    /\ UNCHANGED <<billSeq, sess, loc, placed>>

\* the caller has the updated order or the exception
ReturnFromUpdate(p) ==
    /\ pc[p] = "updated"
    /\ pc' = [pc EXCEPT ![p] = "idle"]
    /\ req' = [req EXCEPT ![p] = NoRequest]
    /\ result' = [result EXCEPT ![p] = None]
    /\ log' = [log EXCEPT ![p] = <<>>]
    /\ pre' = [pre EXCEPT ![p] = [db |-> db, schema |-> NoRequest]]
    /\ UNCHANGED <<db, billSeq, sess, loc, calls, placed>>

NextUpdate ==
    \E p \in Sequential :
        \/ SaveCatalog(p)
        \/ \E id_key \in DOMAIN db.orders \cup {0}, schema \in UpdateSchemas :
              Update(p, id_key, schema)
        \/ ReturnFromUpdate(p)

SpecUpdate == Init /\ [][NextUpdate]_vars

\* C18: update fails with NotFound and leaves the order as it was when the
\* schema's client_id or bill_id names no existing row; and whatever its
\* outcome, update leaves every product's stock, every bill and every detail
\* row unchanged, allocates no number, adds or removes no order, and does
\* not recompute a total from the items: an order's total is the one it had
\* or the one given in the schema.
C18_UpdateValidatesTouchesOrderOnly ==
    \A p \in Procs :
        pc[p] = "updated"
        => LET before == pre[p].db
               schema == pre[p].schema
               missing == \/ schema.client_id \notin before.clients
                          \/ /\ ~IsNone(schema.bill_id)
                             /\ Val(schema.bill_id) \notin DOMAIN before.bills
           IN  /\ missing => /\ ~Val(result[p]).ok
                             /\ ErrorOf(p).kind = "InstanceNotFoundError"
                             /\ ErrorOf(p).entity \in {"Client", "Bill"}
                             /\ db.orders = before.orders
               /\ db.products = before.products
               /\ db.bills = before.bills
               /\ db.details = before.details
               /\ IsNone(loc[p].next_number)
               /\ ~Did(p, "generate_next_order_number")
               /\ DOMAIN db.orders = DOMAIN before.orders
               /\ \A id \in DOMAIN db.orders :
                     \/ db.orders[id] = before.orders[id]
                     \/ /\ id = pre[p].id_key
                        /\ db.orders[id].total = schema.total * PctDenominator

\* an update of an existing order that names a missing bill and carries a
\* line of items has failed; the order had been placed with sold items
C18_Witness ==
    \E p \in Procs :
        /\ pc[p] = "updated"
        /\ pre[p].id_key \in DOMAIN pre[p].db.orders
        /\ pre[p].schema.client_id \in pre[p].db.clients
        /\ ~IsNone(pre[p].schema.bill_id)
        /\ Val(pre[p].schema.bill_id) \notin DOMAIN pre[p].db.bills
        /\ Len(pre[p].schema.items) = 1
        /\ ErrorOf(p) = InstanceNotFoundError("Bill", Val(pre[p].schema.bill_id))
        /\ Len(db.details) > 0
        /\ db = pre[p].db

RECURSIVE SoldQty(_, _)
\* the quantity of product pid in the detail rows
SoldQty(details, pid) ==
    IF details = <<>> THEN 0
    ELSE (IF Head(details).product_id = pid THEN Head(details).quantity ELSE 0)
         + SoldQty(Tail(details), pid)

\* C19: stock is conserved.  For every product the stock it started with is
\* its committed stock plus the quantities of all committed detail rows that
\* name it, in every state reached by sequential saves; a failed save leaves
\* both the stock and the detail rows as they were.  (Every initial store
\* gives a product the same stock.)
C19_StockConserved ==
    /\ \A pid \in DOMAIN db.products :
          \A s \in InitialStores :
              s.products[pid].stock
                = db.products[pid].stock + SoldQty(db.details, pid)
    /\ \A p \in Procs :
          Failed(p) => /\ db.products = StoreBefore(p).products
                       /\ db.details = StoreBefore(p).details

\* two units of a product in one line were sold by an earlier save, and a
\* later save for the same product has failed
C19_Witness ==
    \E p \in Procs :
        /\ Failed(p)
        /\ Len(db.details) = 1
        /\ db.details[1].quantity = 2
        /\ db.products[db.details[1].product_id].stock = 0
        /\ Len(GivenSchema(p).items) > 0
        /\ GivenSchema(p).items[1].product_id = db.details[1].product_id
        /\ ErrorOf(p).kind = "ValueError"

\* C20 as stated: every insufficient-stock error of save, from the pre-check
\* or from the check after the decrement, carries the product id, the
\* quantity asked by the failing item and the available stock, which is the
\* non-negative stock the product had before that item's quantity was
\* subtracted.
C20_ErrorCarriesAvailableStock ==
    \A p \in Procs :
        (Failed(p) /\ ErrorOf(p).kind = "ValueError")
        => LET e == ErrorOf(p)
               items == GivenSchema(p).items
               products == StoreBefore(p).products
           IN  /\ e.disponible >= 0
               /\ \E i \in 1..Len(items) :
                     /\ items[i].product_id = e.product
                     /\ items[i].quantity = e.solicitado
                     /\ e.disponible
                          = products[e.product].stock
                            - SumQty(SubSeq(items, 1, i - 1), e.product)

====
